---- MODULE Spec2Model ----
(***************************************************************************)
(* The ledger core of budget_app: Transaction (LedgerRecord) storage, the  *)
(* Transfer -> Transaction mirror (Transfer.save / Transfer.delete), the   *)
(* gig-entry -> Transaction mirror (the post_save / post_delete handlers   *)
(* of GigCompanyEntry) and the monthly balance rollup.                     *)
(*                                                                         *)
(* Money is counted in whole units; a nullable decimal is <<>> (None) or   *)
(* <<v>>.  Primary keys are positive integers handed out in increasing     *)
(* order and never reused; 0 stands for a NULL foreign key.                *)
(***************************************************************************)
EXTENDS Integers, Sequences, FiniteSets, TLC

VARIABLES
    subcats,        \* names of the SubCategory rows in storage
    transfers,      \* Transfer rows
    txs,            \* Transaction rows
    nextTransfer,   \* next Transfer primary key
    nextTx,         \* next Transaction primary key
    deleting,       \* Transfer whose delete() is between its two statements (0: none)
    entries,        \* GigCompanyEntry rows
    nextEntry,      \* next GigCompanyEntry primary key
    shifts,         \* GigShift rows, in the order of their primary keys
    savers,         \* callers inside Transfer.save: their instance and next step
    ledger,         \* rollup input: the Deposit accounts' records
    balances,       \* rollup output: get_monthly_balances()
    report,         \* reconciliation output: complex_algorithm()
    last,           \* outcome of the last operation
    ops             \* operations performed so far

vars == <<subcats, transfers, txs, nextTransfer, nextTx, deleting,
          entries, nextEntry, shifts, savers, ledger, balances, report, last,
          ops>>

----------------------------------------------------------------------------
(* Bounds *)

MaxTransfers == 2       \* Transfer rows ever created
MaxTx == 4              \* Transaction rows ever created
MaxDate == 2            \* dates 1..MaxDate
MaxAmount == 2          \* amounts 1..MaxAmount
MaxOrganic == 1         \* Transaction rows entered by hand that are stored at a time
MaxOps == 3             \* operations in a run
MaxEntries == 2         \* GigCompanyEntry rows ever created
MaxTips == 1            \* tips_amount 0..MaxTips
MaxLedger == 2          \* records in a rollup's ledger
MaxAdminOps == 2        \* saves through the admin's change form in a run

Dates == 1..MaxDate
Amounts == 1..MaxAmount

----------------------------------------------------------------------------
(* Account, SubCategory *)

Accounts == {"Checking", "Savings", "Visa"}

account_type(a) == IF a = "Visa" THEN "Charge" ELSE "Deposit"

TransferBetween == "Transfer between accounts"
CreditCardPayments == "Credit Card Payments"
SubCategoryNames == {TransferBetween, CreditCardPayments}
NoSubCategory == "NULL"

None == <<>>
Some(v) == <<v>>
NoTransfer == 0

\* Python's `x or 0` on a nullable decimal
Or0(v) == IF v = None THEN 0 ELSE v[1]

----------------------------------------------------------------------------
(* Transaction *)

\* Transaction.save: amount is recomputed from credit and debit
MutTransactionSave(tx) == tx
TransactionSave(tx) ==
    [tx EXCEPT !.amount = Some(Or0(tx.credit) - Or0(tx.debit))]

\* Meta.unique_together = ('transfer', 'account'); NULL transfers never collide
MutUniqueTogether(rows, tx) == TRUE
UniqueTogether(rows, tx) ==
    \/ tx.transfer = NoTransfer
    \/ ~ \E r \in rows : r.id # tx.id /\ r.transfer = tx.transfer
                                     /\ r.account = tx.account

LegsOf(rows, tid) == {r \in rows : r.transfer = tid}

----------------------------------------------------------------------------
(* Transfer.save *)

\* QuerySet.update_or_create(**kw, defaults=dflt) on Transaction.
\* Result: the rows, the next key and the exception raised ("" when none).
UpdateOrCreate(rows, nid, kw, dflt) ==
    LET found == {r \in rows : /\ r.account = kw.account
                               /\ r.date = kw.date
                               /\ r.amount = Some(kw.amount)
                               /\ r.subcategory = kw.subcategory}
    IN  IF Cardinality(found) > 1
        THEN [txs |-> rows, nextTx |-> nid, err |-> "MultipleObjectsReturned"]
        ELSE IF found = {}
        THEN LET new == TransactionSave(
                    [id |-> nid, account |-> kw.account, date |-> kw.date,
                     amount |-> Some(kw.amount), subcategory |-> kw.subcategory,
                     transfer |-> dflt.transfer, description |-> dflt.description,
                     debit |-> dflt.debit, credit |-> dflt.credit,
                     cleared |-> dflt.cleared, write_off |-> dflt.write_off,
                     is_carryover |-> FALSE])
             IN  IF UniqueTogether(rows, new)
                 THEN [txs |-> rows \cup {new}, nextTx |-> nid + 1, err |-> ""]
                 ELSE [txs |-> rows, nextTx |-> nid, err |-> "IntegrityError"]
        ELSE LET old == CHOOSE r \in found : TRUE
                 upd == TransactionSave(
                    [old EXCEPT !.transfer = dflt.transfer,
                                !.description = dflt.description,
                                !.debit = dflt.debit, !.credit = dflt.credit,
                                !.cleared = dflt.cleared,
                                !.write_off = dflt.write_off])
             IN  IF UniqueTogether(rows, upd)
                 THEN [txs |-> (rows \ {old}) \cup {upd}, nextTx |-> nid, err |-> ""]
                 ELSE [txs |-> rows, nextTx |-> nid, err |-> "IntegrityError"]

\* subcategory of the incoming leg
MutSubcatTo(self) ==
    IF account_type(self.from_account) = "Charge"
    THEN CreditCardPayments ELSE TransferBetween
SubcatTo(self) ==
    IF account_type(self.to_account) = "Charge"
    THEN CreditCardPayments ELSE TransferBetween

\* subcategory of the outgoing leg
SubcatFrom(self) == TransferBetween

\* the two SubCategory.objects.get(name=...) calls
MutSubcatLookupOk(cats, self) == TransferBetween \in cats
SubcatLookupOk(cats, self) ==
    /\ TransferBetween \in cats
    /\ account_type(self.to_account) = "Charge" => CreditCardPayments \in cats

OutgoingKw(self) ==
    [account |-> self.from_account, date |-> self.date,
     amount |-> 0 - self.amount, subcategory |-> SubcatFrom(self)]

OutgoingDefaults(self) ==
    [transfer |-> self.id,
     description |-> IF self.description # "" THEN self.description
                     ELSE "Transfer to " \o self.to_account,
     debit |-> Some(self.amount), credit |-> None,
     cleared |-> self.cleared, write_off |-> self.write_off]

IncomingKw(self) ==
    [account |-> self.to_account, date |-> self.date,
     amount |-> self.amount, subcategory |-> SubcatTo(self)]

MutIncomingDefaults(self) ==
    [transfer |-> self.id,
     description |-> IF self.description # "" THEN self.description
                     ELSE "Transfer to " \o self.to_account,
     debit |-> None, credit |-> Some(self.amount),
     cleared |-> FALSE, write_off |-> self.write_off]
IncomingDefaults(self) ==
    [transfer |-> self.id,
     description |-> IF self.description # "" THEN self.description
                     ELSE "Transfer from " \o self.from_account,
     debit |-> None, credit |-> Some(self.amount),
     cleared |-> self.cleared, write_off |-> self.write_off]

\* The mirror part of Transfer.save, after the row is written: statement by
\* statement, stopping at the first exception; what was written stays written.
TransferSaveLegs(cats, rows, nid, self) ==
    IF ~ SubcatLookupOk(cats, self)
    THEN [txs |-> rows, nextTx |-> nid, err |-> "DoesNotExist"]
    ELSE LET out == UpdateOrCreate(rows, nid, OutgoingKw(self), OutgoingDefaults(self))
         IN  IF out.err # "" THEN out
             ELSE UpdateOrCreate(out.txs, out.nextTx,
                                 IncomingKw(self), IncomingDefaults(self))

\* super().save(): the row is inserted, or updated by primary key
TransferRowSave(rows, self) ==
    {t \in rows : t.id # self.id} \cup {self}

----------------------------------------------------------------------------
(* Operations on the ledger *)

\* what the last request did: the operation, the row it was about, the exception
\* it ended with ("" when none) and the Transaction rows it created or removed
Done(op, id, err, n) == [op |-> op, id |-> id, err |-> err, n |-> n]

TransferRows ==
    [id : {0}, from_account : Accounts, to_account : Accounts, date : Dates,
     amount : Amounts, description : {""}, cleared : {FALSE},
     write_off : {FALSE}]

\* a new request starts: no Transfer.delete is half way, and the run goes on
Idle == deleting = 0 /\ ops < MaxOps /\ ops' = ops + 1

GigUnchanged == UNCHANGED <<entries, nextEntry, shifts>>
RaceUnchanged == UNCHANGED savers
RollupUnchanged == UNCHANGED <<ledger, balances, report>>

\* Transfer.save: the row is written, then the two legs are upserted; nothing
\* wraps the three writes, so an exception leaves the earlier ones in place.
TransferSave(self) ==
    LET res == TransferSaveLegs(subcats, txs, nextTx, self)
    IN  /\ Idle
        /\ res.nextTx <= MaxTx + 1
        /\ transfers' = TransferRowSave(transfers, self)
        /\ txs' = res.txs
        /\ nextTx' = res.nextTx
        /\ nextTransfer' = IF self.id = nextTransfer THEN nextTransfer + 1
                           ELSE nextTransfer
        /\ last' = Done(IF self \in transfers THEN "resave" ELSE "save",
                        self.id, res.err, res.nextTx - nextTx)
        /\ UNCHANGED <<subcats, deleting>>
        /\ GigUnchanged /\ RollupUnchanged /\ RaceUnchanged

\* TransferForm.clean: no error is added
MutTransferFormClean(f) == TRUE
TransferFormClean(f) == f.from_account # f.to_account

\* add_transfer: TransferForm.clean rejects from_account = to_account before
\* anything is written; a valid form is saved as a new Transfer.
add_transfer ==
    \E f \in TransferRows :
        /\ nextTransfer <= MaxTransfers
        /\ IF ~ TransferFormClean(f)
           THEN /\ Idle
                /\ last' = Done("add_transfer", 0, "invalid", 0)
                /\ UNCHANGED <<subcats, transfers, txs, nextTransfer, nextTx, deleting>>
                /\ GigUnchanged /\ RollupUnchanged /\ RaceUnchanged
           ELSE TransferSave([f EXCEPT !.id = nextTransfer])

\* Transfer.save called on a stored Transfer, edited or not (admin, shell)
edit_transfer ==
    \E t \in transfers, f \in TransferRows :
        TransferSave([f EXCEPT !.id = t.id])

\* what the admin's change form submits for a Transfer
Descriptions == {"", "Rent"}
AdminRows ==
    [id : {0}, from_account : Accounts, to_account : Accounts, date : {1},
     amount : Amounts, description : Descriptions, cleared : BOOLEAN,
     write_off : BOOLEAN]

\* TransferAdmin.save_model: an empty description is filled in, then obj.save();
\* the admin's ModelForm does not compare from_account with to_account
AdminDescription(obj) ==
    IF obj.description # "" THEN obj
    ELSE [obj EXCEPT !.description =
            "Transfer from " \o obj.from_account \o " to " \o obj.to_account]

save_model ==
    /\ ops < MaxAdminOps
    /\ \/ \E f \in AdminRows :
            /\ nextTransfer <= MaxTransfers
            /\ TransferSave(AdminDescription([f EXCEPT !.id = nextTransfer]))
       \/ \E t \in transfers, f \in AdminRows :
            TransferSave(AdminDescription([f EXCEPT !.id = t.id]))

\* Transfer.delete, first statement: Transaction.objects.filter(transfer=self).delete()
TransferDeleteLegs ==
    \E t \in transfers :
        /\ Idle
        /\ deleting' = t.id
        /\ txs' = txs \ LegsOf(txs, t.id)
        /\ last' = Done("delete_legs", t.id, "", Cardinality(LegsOf(txs, t.id)))
        /\ UNCHANGED <<subcats, transfers, nextTransfer, nextTx>>
        /\ GigUnchanged /\ RollupUnchanged /\ RaceUnchanged

\* Transaction.transfer is on_delete=CASCADE: deleting a Transfer row deletes
\* every Transaction row that references it
MutCascadeDelete(rows, tid) == rows
CascadeDelete(rows, tid) == {r \in rows : r.transfer # tid}

\* Transfer.delete, second statement: super().delete()

TransferDeleteRow ==
    /\ deleting # 0
    /\ ops' = ops
    /\ transfers' = {t \in transfers : t.id # deleting}
    /\ txs' = CascadeDelete(txs, deleting)
    /\ deleting' = 0
    /\ last' = Done("delete", deleting, "", last.n)
    /\ UNCHANGED <<subcats, nextTransfer, nextTx>>
    /\ GigUnchanged /\ RollupUnchanged /\ RaceUnchanged

\* Transfer rows deleted through a queryset (the admin's "delete selected"):
\* Transfer.delete is not called, the rows go with their cascade
delete_selected ==
    \E t \in transfers :
        /\ Idle
        /\ transfers' = transfers \ {t}
        /\ txs' = CascadeDelete(txs, t.id)
        /\ last' = Done("delete_selected", t.id, "", Cardinality(LegsOf(txs, t.id)))
        /\ UNCHANGED <<subcats, nextTransfer, nextTx, deleting>>
        /\ GigUnchanged /\ RollupUnchanged /\ RaceUnchanged

Organic == {r \in txs : r.transfer = NoTransfer}

\* add_transaction: TransactionForm.save assigns amount, Transaction.save recomputes it
add_transaction ==
    \E a \in Accounts, d \in Dates, v \in Amounts, isDebit \in BOOLEAN,
       sc \in subcats :
        /\ Idle
        /\ nextTx <= MaxTx
        /\ Cardinality(Organic) < MaxOrganic
        /\ txs' = txs \cup {TransactionSave(
                [id |-> nextTx, account |-> a, date |-> d,
                 amount |-> Some((IF isDebit THEN 0 ELSE v) - (IF isDebit THEN v ELSE 0)),
                 subcategory |-> sc, transfer |-> NoTransfer, description |-> "",
                 debit |-> IF isDebit THEN Some(v) ELSE None,
                 credit |-> IF isDebit THEN None ELSE Some(v),
                 cleared |-> FALSE, write_off |-> FALSE, is_carryover |-> FALSE])}
        /\ nextTx' = nextTx + 1
        /\ last' = Done("add_transaction", nextTx, "", 1)
        /\ UNCHANGED <<subcats, transfers, nextTransfer, deleting>>
        /\ GigUnchanged /\ RollupUnchanged /\ RaceUnchanged

\* mark_transaction_cleared: load the row, set cleared, Transaction.save
mark_transaction_cleared ==
    \E r \in txs :
        /\ Idle
        /\ ~ r.cleared
        /\ txs' = (txs \ {r}) \cup {TransactionSave([r EXCEPT !.cleared = TRUE])}
        /\ last' = Done("mark_transaction_cleared", r.id, "", 0)
        /\ UNCHANGED <<subcats, transfers, nextTransfer, nextTx, deleting>>
        /\ GigUnchanged /\ RollupUnchanged /\ RaceUnchanged

\* update_subcategory: a SubCategory found by name replaces the row's, then
\* Transaction.save
update_subcategory ==
    \E r \in txs, sc \in subcats :
        /\ Idle
        /\ r.subcategory # sc
        /\ txs' = (txs \ {r}) \cup {TransactionSave([r EXCEPT !.subcategory = sc])}
        /\ last' = Done("update_subcategory", r.id, "", 0)
        /\ UNCHANGED <<subcats, transfers, nextTransfer, nextTx, deleting>>
        /\ GigUnchanged /\ RollupUnchanged /\ RaceUnchanged

\* GigCompanyEntry.income_transaction is on_delete=SET_NULL
SetNullIncome(rows, txid) ==
    {IF e.income_transaction = txid
     THEN [e EXCEPT !.income_transaction = 0] ELSE e : e \in rows}

\* a Transaction row deleted on its own (TransactionAdmin)
delete_transaction ==
    \E r \in txs :
        /\ Idle
        /\ txs' = txs \ {r}
        /\ entries' = SetNullIncome(entries, r.id)
        /\ last' = Done("delete_transaction", r.id, "", 1)
        /\ UNCHANGED <<subcats, transfers, nextTransfer, nextTx, deleting,
                       nextEntry, shifts>>
        /\ RollupUnchanged /\ RaceUnchanged

\* a SubCategory row deleted (admin): Transaction.subcategory is SET_NULL
delete_subcategory ==
    \E sc \in subcats :
        /\ Idle
        /\ subcats' = subcats \ {sc}
        /\ txs' = {IF r.subcategory = sc
                   THEN [r EXCEPT !.subcategory = NoSubCategory] ELSE r : r \in txs}
        /\ last' = Done("delete_subcategory", 0, "", 0)
        /\ UNCHANGED <<transfers, nextTransfer, nextTx, deleting>>
        /\ GigUnchanged /\ RollupUnchanged /\ RaceUnchanged

\* a SubCategory row created (admin)
create_subcategory ==
    \E sc \in SubCategoryNames \ subcats :
        /\ Idle
        /\ subcats' = subcats \cup {sc}
        /\ last' = Done("create_subcategory", 0, "", 0)
        /\ UNCHANGED <<transfers, txs, nextTransfer, nextTx, deleting>>
        /\ GigUnchanged /\ RollupUnchanged /\ RaceUnchanged

----------------------------------------------------------------------------
(* The ledger with its Transfer mirror *)

Init ==
    /\ subcats = SubCategoryNames
    /\ transfers = {}
    /\ txs = {}
    /\ nextTransfer = 1
    /\ nextTx = 1
    /\ deleting = 0
    /\ entries = {}
    /\ nextEntry = 1
    /\ shifts = <<>>
    /\ savers = <<>>
    /\ ledger = {}
    /\ balances = <<>>
    /\ report = <<>>
    /\ last = Done("init", 0, "", 0)
    /\ ops = 0

Next ==
    \/ add_transfer
    \/ edit_transfer
    \/ TransferDeleteLegs
    \/ TransferDeleteRow
    \/ delete_selected
    \/ add_transaction
    \/ mark_transaction_cleared
    \/ update_subcategory
    \/ delete_transaction
    \/ delete_subcategory
    \/ create_subcategory

Spec == Init /\ [][Next]_vars

\* Transfers only: created, edited and deleted, nothing else touches the ledger
NextTransfers ==
    \/ add_transfer
    \/ edit_transfer
    \/ TransferDeleteLegs
    \/ TransferDeleteRow
    \/ delete_selected

SpecTransfers == Init /\ [][NextTransfers]_vars

\* Transfers kept through the admin and the add_transfer page
NextAdmin ==
    \/ save_model
    \/ add_transfer

SpecAdmin == Init /\ [][NextAdmin]_vars

----------------------------------------------------------------------------
(* Properties of the Transfer mirror *)

Refs(rows, tid) == {r \in rows : r.transfer = tid}
RefIds(rows, tid) == {r.id : r \in Refs(rows, tid)}
SaveOps == {"save", "resave"}

\* the leg that mirrors t on account a: sign is -1 for the outgoing leg
IsLeg(r, t, a, sign) ==
    /\ r.transfer = t.id
    /\ r.account = a
    /\ r.amount = Some(sign * t.amount)

\* C2: every stored Transfer is referenced by exactly two records, one on its
\* from_account with amount -amount and one on its to_account with amount +amount.
C2_ExactlyTwoLegs ==
    deleting = 0 =>
        \A t \in transfers :
            /\ Cardinality(Refs(txs, t.id)) = 2
            /\ \E r \in txs : IsLeg(r, t, t.from_account, 0 - 1)
            /\ \E r \in txs : IsLeg(r, t, t.to_account, 1)

\* C3: a Transfer.save that ends with an exception leaves storage as it was
\* before the call.
C3_AllOrNothing ==
    [][(last'.op \in SaveOps /\ last'.err # "")
        => (transfers' = transfers /\ txs' = txs)]_vars

\* C4: a record that references a Transfer never outlives the Transfer row, and
\* after Transfer.delete no record references the deleted Transfer.
C4_NoLegOutlivesTransfer ==
    /\ \A r \in txs : r.transfer # NoTransfer
            => \E t \in transfers : t.id = r.transfer
    /\ last.op \in {"delete_legs", "delete", "delete_selected"}
            => ~ \E r \in txs : r.transfer = last.id

C4_Witness ==
    /\ last.op = "delete"
    /\ last.n = 2
    /\ ~ \E t \in transfers : t.id = last.id

\* the state a successful save of t leaves: both legs, with every mirrored field
Mirrored(rows, t) ==
    /\ \E r \in rows :
            /\ IsLeg(r, t, t.from_account, 0 - 1)
            /\ r.date = t.date /\ r.subcategory = SubcatFrom(t)
            /\ r.debit = Some(t.amount) /\ r.credit = None
            /\ r.description = OutgoingDefaults(t).description
            /\ r.cleared = t.cleared /\ r.write_off = t.write_off
    /\ \E r \in rows :
            /\ IsLeg(r, t, t.to_account, 1)
            /\ r.date = t.date /\ r.subcategory = SubcatTo(t)
            /\ r.debit = None /\ r.credit = Some(t.amount)
            /\ r.description = IncomingDefaults(t).description
            /\ r.cleared = t.cleared /\ r.write_off = t.write_off

\* C5: saving an unchanged Transfer that has a leg on each side creates no
\* record and leaves the same records referencing it; when the legs are as the
\* first save left them, no field of any record changes.
C5_ResaveIdempotent ==
    [][\A t \in transfers :
        (/\ last'.op = "resave" /\ last'.id = t.id /\ t \in transfers'
         /\ \E r \in txs : r.transfer = t.id /\ r.account = t.from_account
         /\ \E r \in txs : r.transfer = t.id /\ r.account = t.to_account)
        => /\ nextTx' = nextTx
           /\ RefIds(txs', t.id) = RefIds(txs, t.id)
           /\ Mirrored(txs, t) => txs' = txs]_vars

C5_Witness ==
    /\ last.op = "resave" /\ last.err = "" /\ last.n = 0
    /\ ops = 2 /\ nextTx = 3
    /\ \E t \in transfers : t.id = last.id /\ Mirrored(txs, t)
                              /\ Cardinality(Refs(txs, t.id)) = 2

\* C9: no two records share a Transfer and an account; the write that would
\* store a second one ends with IntegrityError and stores nothing.
C9_UniqueTransferAccount ==
    \A r1, r2 \in txs :
        (r1.transfer # NoTransfer /\ r1.transfer = r2.transfer
            /\ r1.account = r2.account) => r1 = r2

C9_Witness ==
    /\ last.op = "resave" /\ last.err = "IntegrityError"
    /\ \E t \in transfers, r \in txs :
            /\ t.id = last.id /\ r.transfer = t.id
            /\ r.account = t.from_account /\ r.amount # Some(0 - t.amount)

\* C10: after a successful Transfer.save the outgoing leg carries 'Transfer
\* between accounts', and the incoming leg carries 'Credit Card Payments' when
\* to_account is a Charge account and 'Transfer between accounts' otherwise.
C10_LegSubcategories ==
    (last.op \in SaveOps /\ last.err = "") =>
        \A t \in transfers : t.id = last.id =>
            /\ \E r \in txs : /\ IsLeg(r, t, t.from_account, 0 - 1)
                               /\ r.subcategory = "Transfer between accounts"
            /\ \E r \in txs : /\ IsLeg(r, t, t.to_account, 1)
                               /\ r.subcategory =
                                    IF t.to_account = "Visa"
                                    THEN "Credit Card Payments"
                                    ELSE "Transfer between accounts"

C10_Witness ==
    /\ last.op = "save" /\ last.err = ""
    /\ \E t \in transfers, r \in txs :
            /\ t.id = last.id /\ t.to_account = "Visa"
            /\ IsLeg(r, t, "Visa", 1)
            /\ r.subcategory = "Credit Card Payments"

\* C11: after a successful Transfer.save the outgoing leg has debit = amount,
\* credit null and the back-reference, the incoming leg has credit = amount,
\* debit null and the back-reference; both carry the Transfer's date, cleared
\* and write_off, and its description when given, else 'Transfer to <to>' on
\* the outgoing and 'Transfer from <from>' on the incoming leg.
C11_LegFields ==
    (last.op \in SaveOps /\ last.err = "") =>
        \A t \in transfers : t.id = last.id =>
            /\ \E r \in txs :
                    /\ r.transfer = t.id /\ r.account = t.from_account
                    /\ r.debit = Some(t.amount) /\ r.credit = None
                    /\ r.date = t.date
                    /\ r.cleared = t.cleared /\ r.write_off = t.write_off
                    /\ r.description = IF t.description # "" THEN t.description
                                       ELSE "Transfer to " \o t.to_account
            /\ \E r \in txs :
                    /\ r.transfer = t.id /\ r.account = t.to_account
                    /\ r.credit = Some(t.amount) /\ r.debit = None
                    /\ r.date = t.date
                    /\ r.cleared = t.cleared /\ r.write_off = t.write_off
                    /\ r.description = IF t.description # "" THEN t.description
                                       ELSE "Transfer from " \o t.from_account

\* add_transfer posted a Transfer without description, whose legs took the
\* default descriptions, next to one saved in the admin with a description
\* and both flags set
C11_Witness ==
    /\ last.op = "save" /\ last.err = "" /\ last.n = 2
    /\ \E t \in transfers, r1, r2 \in txs :
            /\ t.id = last.id /\ t.description = ""
            /\ r1.transfer = t.id /\ r1.account = t.from_account
            /\ r1.description = "Transfer to " \o t.to_account
            /\ r2.transfer = t.id /\ r2.account = t.to_account
            /\ r2.description = "Transfer from " \o t.from_account
    /\ \E t \in transfers, r \in txs :
            /\ t.cleared /\ t.write_off /\ t.description = "Rent"
            /\ r.transfer = t.id /\ r.account = t.to_account
            /\ r.cleared /\ r.write_off /\ r.description = "Rent"

----------------------------------------------------------------------------
(* GigCompany, GigCompanyEntry and the income mirror *)

\* Two companies: DD is fully configured, UE has no income_subcategory
Companies == {"DD", "UE"}
payout_account(c) == "Checking"
GigIncome == "Salary - Gig Work"
income_subcategory(c) == IF c = "DD" THEN GigIncome ELSE NoSubCategory

\* the apps whose GigCompanyEntry model and post_save handler serve the table
Apps == {"gigs", "budget"}

\* a GigShift is known by its date
ShiftDate(shift) == shift

Gross == 0..MaxAmount
Tips == 0..MaxTips

\* GigCompanyEntry.save: earnings_before_tips is recomputed
MutGigCompanyEntrySave(e) == e
GigCompanyEntrySave(e) ==
    [e EXCEPT !.earnings_before_tips = e.gross_earnings - e.tips_amount]

\* the handler's early return
MutConfigured(c) == TRUE
Configured(c) == income_subcategory(c) # NoSubCategory

GigDescription(c) == "Gig earnings - " \o c

\* update branch of gigs.signals.sync_gig_entry_to_transaction, before tx.save()
GigsUpdate(tx, e) ==
    [tx EXCEPT !.date = ShiftDate(e.shift),
               !.account = payout_account(e.company),
               !.credit = Some(e.gross_earnings),
               !.description = GigDescription(e.company),
               !.subcategory = income_subcategory(e.company),
               !.cleared = FALSE, !.write_off = FALSE,
               !.debit = None]

\* update branch of budget.signals.sync_gig_entry_to_transaction, before tx.save()
BudgetUpdate(tx, e) ==
    [tx EXCEPT !.date = ShiftDate(e.shift),
               !.account = payout_account(e.company),
               !.amount = Some(e.gross_earnings),
               !.description = GigDescription(e.company),
               !.subcategory = income_subcategory(e.company),
               !.cleared = FALSE, !.write_off = FALSE]

\* create branch (the same in both handlers): Transaction.objects.create(...)
GigCreate(nid, e) ==
    [id |-> nid, account |-> payout_account(e.company),
     date |-> ShiftDate(e.shift), description |-> GigDescription(e.company),
     debit |-> None, credit |-> Some(e.gross_earnings), amount |-> None,
     subcategory |-> income_subcategory(e.company),
     cleared |-> FALSE, write_off |-> FALSE,
     transfer |-> NoTransfer, is_carryover |-> FALSE]

\* sync_gig_entry_to_transaction of the app, run after the entry row e is
\* written. Result: the Transaction rows, the next key, the record e is linked
\* to and the exception raised.
SyncGigEntry(app, rows, nid, e) ==
    IF ~ Configured(e.company)
    THEN [txs |-> rows, nextTx |-> nid, link |-> e.income_transaction, err |-> ""]
    ELSE IF e.income_transaction # 0
    THEN LET old == CHOOSE r \in rows : r.id = e.income_transaction
             upd == TransactionSave(IF app = "gigs" THEN GigsUpdate(old, e)
                                    ELSE BudgetUpdate(old, e))
         IN  IF UniqueTogether(rows, upd)
             THEN [txs |-> (rows \ {old}) \cup {upd}, nextTx |-> nid,
                   link |-> e.income_transaction, err |-> ""]
             ELSE [txs |-> rows, nextTx |-> nid,
                   link |-> e.income_transaction, err |-> "IntegrityError"]
    ELSE [txs |-> rows \cup {TransactionSave(GigCreate(nid, e))},
          nextTx |-> nid + 1, link |-> nid, err |-> ""]

TransferUnchanged == UNCHANGED <<subcats, transfers, nextTransfer, deleting>>

\* GigCompanyEntry.save with its post_save handler; the handler's link-back
\* is a queryset update of income_transaction alone
GigEntrySave(app, self) ==
    LET e == GigCompanyEntrySave(self)
        res == SyncGigEntry(app, txs, nextTx, e)
    IN  /\ Idle
        /\ res.nextTx <= MaxTx + 1
        /\ entries' = {x \in entries : x.id # e.id}
                        \cup {[e EXCEPT !.income_transaction = res.link]}
        /\ txs' = res.txs
        /\ nextTx' = res.nextTx
        /\ nextEntry' = IF e.id = nextEntry THEN nextEntry + 1 ELSE nextEntry
        /\ UNCHANGED shifts
        /\ last' = Done(app \o (IF res.nextTx > nextTx THEN ".create"
                                ELSE IF Configured(e.company) THEN ".update"
                                ELSE ".skip"),
                        e.id, res.err, res.nextTx - nextTx)
        /\ TransferUnchanged /\ RollupUnchanged /\ RaceUnchanged

\* a new entry is saved (gig_entry's formset, or the admin)
gig_entry ==
    \E app \in Apps, c \in Companies, d \in Dates, g \in Gross, t \in Tips :
        /\ nextEntry <= MaxEntries
        /\ GigEntrySave(app, [id |-> nextEntry, company |-> c, shift |-> d,
                              gross_earnings |-> g, tips_amount |-> t,
                              earnings_before_tips |-> 0,
                              income_transaction |-> 0])

\* a stored entry is edited and saved (GigCompanyEntryAdmin: every field is
\* editable, earnings_before_tips included)
gig_entry_edit ==
    \E app \in Apps, e \in entries, c \in Companies, d \in Dates, g \in Gross,
       t \in Tips, b \in Tips :
        GigEntrySave(app, [e EXCEPT !.company = c, !.shift = d,
                                    !.gross_earnings = g, !.tips_amount = t,
                                    !.earnings_before_tips = b])

\* delete_gig_entry_transaction (post_delete): the linked record is deleted
MutDeleteGigEntryTransaction(rows, e) == rows
DeleteGigEntryTransaction(rows, e) ==
    {r \in rows : r.id # e.income_transaction}

\* the entries in gone are deleted; post_delete runs for each of them
GigEntriesDelete(op, id, gone) ==
    /\ Idle
    /\ entries' = entries \ gone
    /\ txs' = {r \in txs : \A e \in gone : r \in DeleteGigEntryTransaction(txs, e)}
    /\ last' = Done(op, id, "", Cardinality(txs) - Cardinality(txs'))
    /\ UNCHANGED <<nextTx, nextEntry>>
    /\ TransferUnchanged /\ RollupUnchanged /\ RaceUnchanged

\* an entry is deleted
gig_entry_delete ==
    \E e \in entries :
        /\ GigEntriesDelete("gig_entry_delete", e.id, {e})
        /\ UNCHANGED shifts

\* a GigShift is deleted: GigCompanyEntry.shift is on_delete=CASCADE, and the
\* cascade sends post_delete for every entry it removes
gig_shift_delete ==
    \E d \in {e.shift : e \in entries} :
        LET Kept(row) == row.date # d
        IN  /\ GigEntriesDelete("gig_shift_delete", d,
                                {e \in entries : e.shift = d})
            /\ shifts' = SelectSeq(shifts, Kept)

\* import_transactions: one CSV row becomes a Transaction; amount is not given
import_transactions ==
    \E a \in Accounts, d \in Dates, v \in Amounts, isDebit \in BOOLEAN :
        /\ Idle
        /\ nextTx <= MaxTx
        /\ Cardinality(Organic) < MaxOrganic
        /\ txs' = txs \cup {TransactionSave(
                [id |-> nextTx, account |-> a, date |-> d, amount |-> None,
                 subcategory |-> TransferBetween, transfer |-> NoTransfer,
                 description |-> "",
                 debit |-> IF isDebit THEN Some(v) ELSE None,
                 credit |-> IF isDebit THEN None ELSE Some(v),
                 cleared |-> FALSE, write_off |-> FALSE, is_carryover |-> FALSE])}
        /\ nextTx' = nextTx + 1
        /\ last' = Done("import_transactions", nextTx, "", 1)
        /\ UNCHANGED <<subcats, transfers, nextTransfer, deleting>>
        /\ GigUnchanged /\ RollupUnchanged /\ RaceUnchanged

NextGig ==
    \/ gig_entry
    \/ gig_entry_edit
    \/ gig_entry_delete
    \/ gig_shift_delete
    \/ import_transactions
    \/ mark_transaction_cleared
    \/ delete_transaction

SpecGig == Init /\ [][NextGig]_vars

----------------------------------------------------------------------------
(* gig_entry: the shift and its entries in one database transaction *)

\* the forms of GigCompanyFormSet that carry data
MaxForms == 2
EntryForms == [company : Companies, gross_earnings : Gross, tips_amount : Tips]
FormSets == UNION {[1..n -> EntryForms] : n \in 0..MaxForms}

\* the statements of the atomic block, in order: shift_form.save(), then for
\* each form the entry's row and its post_save handler, then the note
StepCount(forms) == 2 * Len(forms) + 2
StepName(forms, s) ==
    IF s = 1 THEN "shift_form.save"
    ELSE IF s = StepCount(forms) THEN "company_mix_note"
    ELSE IF s % 2 = 0 THEN "entry.save" ELSE "sync_gig_entry_to_transaction"

\* "/".join(sorted(codes)) over the distinct companies of the shift's entries
MixNote(codes) ==
    IF codes = {} THEN ""
    ELSE IF codes = {"DD"} THEN "DD"
    ELSE IF codes = {"UE"} THEN "UE"
    ELSE "DD/UE"

\* the database as the block sees it
Storage ==
    [shifts |-> shifts, entries |-> entries, nextEntry |-> nextEntry,
     txs |-> txs, nextTx |-> nextTx, mine |-> {}, err |-> ""]

\* one statement of the block run on st for the shift dated d; mine are the
\* entries of the shift being saved
GigEntryStep(app, st, d, forms, s) ==
    IF s = 1
    THEN [st EXCEPT !.shifts = Append(st.shifts,
                                      [date |-> d, company_mix_note |-> ""])]
    ELSE IF s = StepCount(forms)
    THEN [st EXCEPT !.shifts[Len(st.shifts)].company_mix_note =
                MixNote({e.company : e \in {x \in st.entries : x.id \in st.mine}})]
    ELSE IF s % 2 = 0
    THEN LET f == forms[s \div 2]
         IN  [st EXCEPT !.entries = st.entries \cup {GigCompanyEntrySave(
                            [id |-> st.nextEntry, company |-> f.company,
                             shift |-> d, gross_earnings |-> f.gross_earnings,
                             tips_amount |-> f.tips_amount,
                             earnings_before_tips |-> 0,
                             income_transaction |-> 0])},
                        !.nextEntry = st.nextEntry + 1,
                        !.mine = st.mine \cup {st.nextEntry}]
    ELSE LET e == CHOOSE x \in st.entries : x.id = st.nextEntry - 1
             res == SyncGigEntry(app, st.txs, st.nextTx, e)
         IN  [st EXCEPT !.txs = res.txs, !.nextTx = res.nextTx,
                        !.entries = (st.entries \ {e}) \cup
                                {[e EXCEPT !.income_transaction = res.link]},
                        !.err = res.err]

\* the block's statements from s on; the statement numbered fail raises
RECURSIVE GigEntryBlock(_, _, _, _, _, _)
GigEntryBlock(app, st, d, forms, s, fail) ==
    IF st.err # "" \/ s > StepCount(forms) THEN st
    ELSE IF s = fail
    THEN [st EXCEPT !.err = "raised in " \o StepName(forms, s)]
    ELSE GigEntryBlock(app, GigEntryStep(app, st, d, forms, s), d, forms,
                       s + 1, fail)

\* transaction.atomic(): an exception that leaves the block rolls back every
\* write made inside it
MutAtomic(before, after) == after
Atomic(before, after) ==
    IF after.err # "" THEN [before EXCEPT !.err = after.err] ELSE after

\* gig_entry, POST with valid forms: fail = 0 when no statement raises
gig_entry_post ==
    \E app \in Apps, d \in Dates, forms \in FormSets :
        \E fail \in 0..StepCount(forms) :
            LET res == Atomic(Storage,
                              GigEntryBlock(app, Storage, d, forms, 1, fail))
            IN  /\ Idle
                /\ nextEntry + Len(forms) <= MaxEntries + 1
                /\ nextTx + Len(forms) <= MaxTx + 1
                /\ shifts' = res.shifts
                /\ entries' = res.entries
                /\ nextEntry' = res.nextEntry
                /\ txs' = res.txs
                /\ nextTx' = res.nextTx
                /\ last' = Done("gig_entry_post", Len(shifts) + 1, res.err,
                                Len(forms))
                /\ TransferUnchanged /\ RollupUnchanged /\ RaceUnchanged

NextShift ==
    \/ gig_entry_post
    \/ gig_shift_delete

SpecShift == Init /\ [][NextShift]_vars

----------------------------------------------------------------------------
(* Properties of Transaction.save and of the income mirror *)

\* C1: every stored record has amount = (credit or 0) - (debit or 0), whatever
\* amount the caller assigned before the save.
C1_AmountInvariant ==
    \A r \in txs : r.amount = Some(Or0(r.credit) - Or0(r.debit))

\* budget's handler assigned tx.amount = gross_earnings; the save overwrote it
C1_Witness ==
    /\ last.op = "budget.update"
    /\ \E e \in entries, r \in txs :
            /\ e.id = last.id /\ r.id = e.income_transaction
            /\ r.credit # Some(e.gross_earnings)
            /\ r.amount = r.credit

GigSaveOps == {"gigs.create", "gigs.update", "budget.create", "budget.update"}

\* C6: after every save of an entry of a configured company, exactly one record
\* is linked to it, with credit = gross_earnings, debit null and
\* amount = gross_earnings.
C6_IncomeRecordMirrorsEntry ==
    last.op \in GigSaveOps =>
        \A e \in entries : e.id = last.id =>
            /\ \E r \in txs : /\ r.id = e.income_transaction
                               /\ r.credit = Some(e.gross_earnings)
                               /\ r.debit = None
                               /\ r.amount = Some(e.gross_earnings)
            /\ \A x \in entries :
                    x.income_transaction = e.income_transaction => x = e

\* C7: every stored entry has earnings_before_tips = gross_earnings - tips_amount.
C7_EarningsBeforeTips ==
    \A e \in entries :
        e.earnings_before_tips = e.gross_earnings - e.tips_amount

\* a new entry was saved and linked back to its record; the field was 0 before
C7_Witness ==
    /\ last.op \in {"gigs.create", "budget.create"}
    /\ \E e \in entries :
            /\ e.id = last.id /\ e.income_transaction # 0
            /\ e.earnings_before_tips # 0

GigEntryOps == {a \o x : a \in Apps, x \in {".create", ".update", ".skip"}}

\* C12: when an entry is saved and its company has no income subcategory, the
\* entry is stored, no error is raised, no record is created and no stored
\* record is changed.
C12_UnconfiguredIsNoOp ==
    [][last'.op \in GigEntryOps =>
        \E e \in entries' :
            /\ e.id = last'.id
            /\ income_subcategory(e.company) = NoSubCategory
                    => /\ txs' = txs
                       /\ nextTx' = nextTx
                       /\ last'.err = ""]_vars

\* an entry that has an income record was moved to the company without
\* subcategory and saved with other earnings: the record is as it was
C12_Witness ==
    /\ last.op \in {"gigs.skip", "budget.skip"}
    /\ \E e \in entries, r \in txs :
            /\ e.id = last.id /\ e.company = "UE"
            /\ r.id = e.income_transaction
            /\ r.credit # Some(e.gross_earnings)

\* C13: when an entry is deleted, directly or with its GigShift, the record it
\* was linked to through income_transaction is deleted with it.
C13_EntryDeleteRemovesRecord ==
    [][last'.op \in {"gig_entry_delete", "gig_shift_delete"} =>
        \A e \in entries \ entries' :
            ~ \E r \in txs' : r.id = e.income_transaction]_vars

\* a shift with two entries was deleted and both income records went with it
C13_Witness ==
    /\ last.op = "gig_shift_delete"
    /\ last.n = 2
    /\ entries = {}
    /\ nextEntry = 3

----------------------------------------------------------------------------
(* get_monthly_balances *)

\* The rollup reads account, date, amount and is_carryover of the Transaction
\* rows; a date is <<year, month, day>>.
RollupYears == {2024, 2025}
RollupMonths == {1, 2, 12}
RollupDays == {1, 15}
RollupAccounts == {"Checking", "Visa"}

RollupRecords ==
    [account : RollupAccounts,
     date : RollupYears \X RollupMonths \X RollupDays,
     amount : ((0 - MaxAmount)..MaxAmount) \ {0},
     is_carryover : BOOLEAN]

RECURSIVE SubsetsUpTo(_, _)
SubsetsUpTo(S, n) ==
    IF n = 0 THEN {{}}
    ELSE LET P == SubsetsUpTo(S, n - 1)
         IN  P \cup {q \cup {x} : q \in P, x \in S}

\* date comparison
DateLt(a, b) ==
    \/ a[1] < b[1]
    \/ a[1] = b[1] /\ a[2] < b[2]
    \/ a[1] = b[1] /\ a[2] = b[2] /\ a[3] < b[3]
DateLe(a, b) == a = b \/ DateLt(a, b)

\* calendar.monthrange(year, month)[1]
monthrange(y, m) ==
    IF m = 2 THEN (IF y % 4 = 0 /\ (y % 100 # 0 \/ y % 400 = 0) THEN 29 ELSE 28)
    ELSE IF m \in {4, 6, 9, 11} THEN 30 ELSE 31

\* aggregate(total=Sum('amount'))['total'] or 0
RECURSIVE SumAmount(_)
SumAmount(rows) ==
    IF rows = {} THEN 0
    ELSE LET r == CHOOSE x \in rows : TRUE
         IN  r.amount + SumAmount(rows \ {r})

\* the rows of the Deposit accounts
DepositRows(rows) == {r \in rows : account_type(r.account) = "Deposit"}

\* start_balance of the month: January is seeded from the carryover rows
StartBalance(rows, y, m) ==
    IF m = 1
    THEN SumAmount({r \in DepositRows(rows) :
                        DateLe(r.date, <<y, m, 1>>) /\ r.is_carryover})
    ELSE SumAmount({r \in DepositRows(rows) : DateLt(r.date, <<y, m, 1>>)})

EndBalance(rows, y, m) ==
    SumAmount({r \in DepositRows(rows) : DateLe(r.date, <<y, m, monthrange(y, m)>>)})

\* the months with at least one row of a Deposit account
MonthsOf(rows) == {<<r.date[1], r.date[2]>> : r \in DepositRows(rows)}

GetMonthlyBalances(rows) ==
    [k \in MonthsOf(rows) |->
        [start |-> StartBalance(rows, k[1], k[2]),
         end |-> EndBalance(rows, k[1], k[2])]]

InitRollup ==
    /\ subcats = SubCategoryNames
    /\ transfers = {}
    /\ txs = {}
    /\ nextTransfer = 1
    /\ nextTx = 1
    /\ deleting = 0
    /\ entries = {}
    /\ nextEntry = 1
    /\ shifts = <<>>
    /\ savers = <<>>
    /\ ledger \in SubsetsUpTo(RollupRecords, MaxLedger)
    /\ balances = <<>>
    /\ report = <<>>
    /\ last = Done("init", 0, "", 0)
    /\ ops = 0

get_monthly_balances ==
    /\ Idle
    /\ last.op = "init"
    /\ balances' = GetMonthlyBalances(ledger)
    /\ last' = Done("get_monthly_balances", 0, "", 0)
    /\ UNCHANGED <<subcats, transfers, txs, nextTransfer, nextTx, deleting,
                   entries, nextEntry, shifts, savers, ledger, report>>

\* complex_algorithm: the monthly reconciliation report

\* request.GET.get("month"): absent, empty, or text
MonthParams == {"absent", "", "1", "2", "12", "13", "x"}

\* int(selected_month) raises ValueError when the text is not a number
ValueError(p) == p \notin {"1", "2", "12", "13"}
ParseInt(p) ==
    CASE p = "1" -> 1 [] p = "2" -> 2 [] p = "12" -> 12 [] p = "13" -> 13

\* the month filter; None stands for all months
SelectedMonth(p, current_month) ==
    IF p = "" THEN None
    ELSE IF p = "absent" THEN Some(current_month)
    ELSE IF ValueError(p) THEN Some(current_month)
    ELSE IF 1 <= ParseInt(p) /\ ParseInt(p) <= 12 THEN Some(ParseInt(p))
    ELSE Some(current_month)

DepositAccounts == {a \in Accounts : account_type(a) = "Deposit"}

\* the dormancy test of one account for the selected month
MutMonthDormant(rows, a, y, m) ==
    SumAmount({r \in rows : r.account = a /\ DateLe(r.date, <<y, m, 1>>)}) = 0
MonthDormant(rows, a, y, m) ==
    LET mine == {r \in rows : r.account = a}
        start_balance == SumAmount({r \in mine : DateLe(r.date, <<y, m, 1>>)})
        activity == SumAmount({r \in mine :
                        /\ DateLe(<<y, m, 1>>, r.date)
                        /\ DateLe(r.date, <<y, m, monthrange(y, m)>>)})
        end_balance == start_balance + (activity - start_balance)
    IN  activity = start_balance /\ start_balance = 0 /\ end_balance = 0

\* the dormancy test of one account for the whole year
YearDormant(rows, a, y) ==
    LET mine == {r \in rows : r.account = a}
        start_balance == SumAmount({r \in mine : DateLt(r.date, <<y, 1, 1>>)})
        activity == SumAmount({r \in mine :
                        /\ DateLe(<<y, 1, 1>>, r.date)
                        /\ DateLe(r.date, <<y, 12, 31>>)})
        end_balance == start_balance + (activity - start_balance)
    IN  activity = 0 /\ start_balance = 0 /\ end_balance = 0

\* the names collected in `dormant`
Dormant(rows, y, selected) ==
    {a \in DepositAccounts :
        IF selected # None THEN MonthDormant(rows, a, y, selected[1])
        ELSE YearDormant(rows, a, y)}

\* date.today(): the year and the month
Todays == RollupYears \X {2, 3}

\* a record carries its amount as a debit or as a credit
\* (Transaction.save: amount = credit - debit)
DebitOf(r) == IF r.amount < 0 THEN 0 - r.amount ELSE 0
CreditOf(r) == IF r.amount > 0 THEN r.amount ELSE 0

RECURSIVE SumDebit(_)
SumDebit(rows) ==
    IF rows = {} THEN 0
    ELSE LET r == CHOOSE x \in rows : TRUE
         IN  DebitOf(r) + SumDebit(rows \ {r})

RECURSIVE SumCredit(_)
SumCredit(rows) ==
    IF rows = {} THEN 0
    ELSE LET r == CHOOSE x \in rows : TRUE
         IN  CreditOf(r) + SumCredit(rows \ {r})

\* all_tx: the Deposit accounts' records of the current year
AllTx(rows, y) ==
    {r \in rows : r.account \in DepositAccounts /\ r.date[1] = y}

\* the month's bucket of the account, without the carryover records
MutMonthTxs(rows, a, y, m) ==
    {r \in AllTx(rows, y) : r.account = a /\ r.date[2] = m}
MonthTxs(rows, a, y, m) ==
    {r \in AllTx(rows, y) : r.account = a /\ r.date[2] = m /\ ~ r.is_carryover}

\* carryovers: per account, the carryover records dated January 1
Carryovers(rows, y) ==
    [a \in DepositAccounts |->
        SumAmount({r \in rows : /\ r.account = a
                                /\ r.date = <<y, 1, 1>>
                                /\ r.is_carryover})]

\* one element of month_accounts
MutAccountRow(rows, a, y, m, beginning_balance, dormant) ==
    LET debit == SumDebit(MonthTxs(rows, a, y, m))
        credit == SumCredit(MonthTxs(rows, a, y, m))
        ending_balance == beginning_balance + credit + debit
    IN  [debit |-> debit, credit |-> credit,
         computed_change |-> credit - debit,
         actual_change |-> ending_balance - beginning_balance,
         beginning_balance |-> beginning_balance,
         ending_balance |-> ending_balance,
         match |-> (credit - debit) = (ending_balance - beginning_balance),
         is_dormant |-> a \in dormant]
AccountRow(rows, a, y, m, beginning_balance, dormant) ==
    LET debit == SumDebit(MonthTxs(rows, a, y, m))
        credit == SumCredit(MonthTxs(rows, a, y, m))
        computed_change == credit - debit
        ending_balance == beginning_balance + computed_change
    IN  [debit |-> debit, credit |-> credit,
         computed_change |-> credit - debit,
         actual_change |-> ending_balance - beginning_balance,
         beginning_balance |-> beginning_balance,
         ending_balance |-> ending_balance,
         match |-> (credit - debit) = (ending_balance - beginning_balance),
         is_dormant |-> a \in dormant]

\* the sum of one field over the rows of month_accounts
RECURSIVE SumField(_, _, _)
SumField(accounts, S, field) ==
    IF S = {} THEN 0
    ELSE LET a == CHOOSE x \in S : TRUE
         IN  accounts[a][field] + SumField(accounts, S \ {a}, field)

\* one element of monthly_data
MonthEntry(rows, y, current_month, selected, dormant, m, running, ytd) ==
    LET accounts == [a \in DepositAccounts |->
                        AccountRow(rows, a, y, m, running[a], dormant)]
        total_start == SumField(accounts, DepositAccounts, "beginning_balance")
        total_end == SumField(accounts, DepositAccounts, "ending_balance")
        total_debit == SumField(accounts, DepositAccounts, "debit")
        total_credit == SumField(accounts, DepositAccounts, "credit")
    IN  [month |-> m, year |-> y, is_future |-> m > current_month,
         accounts |-> accounts,
         summary |-> [total_start |-> total_start, total_end |-> total_end,
                      total_debit |-> total_debit, total_credit |-> total_credit,
                      computed_change |-> total_credit - total_debit,
                      actual_change |-> total_end - total_start,
                      match |-> (total_credit - total_debit)
                                    = (total_end - total_start)],
         ytd_summary |-> [debit |-> ytd.debit + total_debit,
                          credit |-> ytd.credit + total_credit,
                          diff |-> (ytd.credit + total_credit)
                                    - (ytd.debit + total_debit)],
         is_selected |-> Some(m) = selected]

\* for m in range(m, current_month + 1): the entries, in the order appended
RECURSIVE MonthLoop(_, _, _, _, _, _, _, _)
MonthLoop(rows, y, current_month, selected, dormant, m, running, ytd) ==
    IF m > current_month THEN <<>>
    ELSE LET e == MonthEntry(rows, y, current_month, selected, dormant, m,
                             running, ytd)
         IN  <<e>> \o MonthLoop(rows, y, current_month, selected, dormant, m + 1,
                    [a \in DepositAccounts |-> e.accounts[a].ending_balance],
                    [debit |-> e.ytd_summary.debit,
                     credit |-> e.ytd_summary.credit])

\* list.reverse()
MutReverse(seq) == seq
Reverse(seq) == [i \in 1..Len(seq) |-> seq[Len(seq) + 1 - i]]

MonthlyData(rows, y, current_month, selected, dormant) ==
    Reverse(MonthLoop(rows, y, current_month, selected, dormant, 1,
                      Carryovers(rows, y), [debit |-> 0, credit |-> 0]))

complex_algorithm ==
    \E today \in Todays, p \in MonthParams :
        LET selected == SelectedMonth(p, today[2])
            dormant == Dormant(ledger, today[1], selected)
        IN  /\ Idle
            /\ last.op = "init"
            /\ report' = [year |-> today[1], selected_month |-> selected,
                           current_month |-> today[2],
                           dormant |-> dormant,
                           monthly_data |->
                                MonthlyData(ledger, today[1], today[2], selected,
                                            dormant)]
            /\ last' = Done("complex_algorithm", 0, "", 0)
            /\ UNCHANGED <<subcats, transfers, txs, nextTransfer, nextTx,
                           deleting, entries, nextEntry, shifts, savers,
                           ledger, balances>>

NextRollup ==
    \/ get_monthly_balances
    \/ complex_algorithm

SpecRollup == InitRollup /\ [][NextRollup]_vars

\* the calendar month after <<year, month>>
MonthAfter(k) == IF k[2] = 12 THEN <<k[1] + 1, 1>> ELSE <<k[1], k[2] + 1>>

\* C8: for calendar-adjacent months N and N+1 that both appear in the result,
\* end_balance(N) = start_balance(N+1).
C8_AdjacentMonthsAgree ==
    last.op = "get_monthly_balances" =>
        \A k1, k2 \in DOMAIN balances :
            k2 = MonthAfter(k1) => balances[k1].end = balances[k2].start

\* C14: a Deposit account is flagged dormant exactly when, for the measured
\* period (the selected month, or the report's year when no month is selected),
\* the sum of its amounts dated before the period and the sum of its amounts
\* dated within the period are both zero.
C14_DormantIffZero ==
    last.op = "complex_algorithm" =>
        \A a \in {"Checking", "Savings"} :
            LET y == report.year
                first == IF report.selected_month = None THEN <<y, 1, 1>>
                         ELSE <<y, report.selected_month[1], 1>>
                final == IF report.selected_month = None THEN <<y, 12, 31>>
                         ELSE <<y, report.selected_month[1],
                                monthrange(y, report.selected_month[1])>>
                before == {r \in ledger : r.account = a /\ DateLt(r.date, first)}
                within == {r \in ledger : /\ r.account = a
                                          /\ ~ DateLt(r.date, first)
                                          /\ ~ DateLt(final, r.date)}
            IN  a \in report.dormant
                    <=> (SumAmount(before) = 0 /\ SumAmount(within) = 0)

----------------------------------------------------------------------------
(* Failures and edits of Transfer.save *)

\* C15: when 'Transfer between accounts' is missing, or 'Credit Card Payments'
\* is missing and to_account is a Charge account, Transfer.save ends with an
\* error, and it does not end with exactly one leg posted: it posts none.
C15_MissingSubcategoryFails ==
    [][\A t \in transfers' :
        (/\ last'.op \in SaveOps /\ last'.id = t.id
         /\ \/ "Transfer between accounts" \notin subcats
            \/ t.to_account = "Visa" /\ "Credit Card Payments" \notin subcats)
        => /\ last'.err = "DoesNotExist"
           /\ Cardinality({r \in txs' : r.transfer = t.id /\ r \notin txs}) # 1
           /\ txs' = txs]_vars

\* a payment to the card was saved while 'Credit Card Payments' was missing
C15_Witness ==
    /\ last.op = "save" /\ last.err = "DoesNotExist"
    /\ "Transfer between accounts" \in subcats
    /\ "Credit Card Payments" \notin subcats
    /\ \E t \in transfers : t.id = last.id /\ t.to_account = "Visa"
                              /\ Refs(txs, t.id) = {}

\* C16: a transfer submitted to add_transfer with from_account = to_account is
\* rejected before any write: no Transfer with equal accounts is created, and
\* the rejected submission leaves every Transfer and every record as it was.
C16_SameAccountRejected ==
    [][/\ \A t \in transfers' :
            t.id \notin {x.id : x \in transfers}
                => t.from_account # t.to_account
       /\ (last'.op = "add_transfer" /\ last'.err = "invalid")
            => /\ transfers' = transfers
               /\ txs' = txs
               /\ nextTransfer' = nextTransfer /\ nextTx' = nextTx]_vars

\* a submission was rejected while a Transfer and its legs were in storage
C16_Witness ==
    /\ last.op = "add_transfer" /\ last.err = "invalid"
    /\ \E t \in transfers : Cardinality(Refs(txs, t.id)) = 2

\* t, stored with a leg of its amount on each side, is saved again as u, which
\* differs from t in amount alone
AmountEdited(t, u) ==
    /\ t \in transfers /\ u \in transfers'
    /\ last'.op \in SaveOps /\ last'.id = t.id
    /\ u.amount # t.amount
    /\ u = [t EXCEPT !.amount = u.amount]
    /\ \E r \in txs : IsLeg(r, t, t.from_account, 0 - 1)
    /\ \E r \in txs : IsLeg(r, t, t.to_account, 1)

C18_ForeignRecordsUntouched ==
    [][last'.op \in SaveOps =>
        \A r \in txs : r.transfer # last'.id => r \in txs']_vars

----------------------------------------------------------------------------
(* A mirrored record deleted on its own, and the next save of its source *)

\* Transfer.save called on a stored Transfer that was not edited
resave_transfer ==
    \E t \in transfers : TransferSave(t)

\* storage after one transfer was posted through add_transfer
InitRepair ==
    \E f \in TransferRows :
        LET t == [f EXCEPT !.id = 1]
        IN  /\ TransferFormClean(f)
            /\ subcats = SubCategoryNames
            /\ transfers = {t}
            /\ txs = TransferSaveLegs(SubCategoryNames, {}, 1, t).txs
            /\ nextTransfer = 2
            /\ nextTx = 3
            /\ deleting = 0
            /\ entries = {}
            /\ nextEntry = 1
            /\ shifts = <<>>
            /\ savers = <<>>
            /\ ledger = {}
            /\ balances = <<>>
            /\ report = <<>>
            /\ last = Done("save", 1, "", 2)
            /\ ops = 0

NextRepair ==
    \/ delete_transaction
    \/ add_transaction
    \/ resave_transfer

SpecRepair == InitRepair /\ [][NextRepair]_vars

\* r is one of the two legs a save of t leaves
ProperLeg(r, t) ==
    /\ r.transfer = t.id /\ r.date = t.date
    /\ r.cleared = t.cleared /\ r.write_off = t.write_off
    /\ \/ /\ r.account = t.from_account /\ r.amount = Some(0 - t.amount)
          /\ r.debit = Some(t.amount) /\ r.credit = None
          /\ r.subcategory = "Transfer between accounts"
       \/ /\ r.account = t.to_account /\ r.amount = Some(t.amount)
          /\ r.credit = Some(t.amount) /\ r.debit = None
          /\ r.subcategory = IF t.to_account = "Visa" THEN "Credit Card Payments"
                             ELSE "Transfer between accounts"

\* C19: when a mirrored record was deleted on its own and its source still
\* exists, the next save of the unchanged source recreates it: the Transfer
\* has exactly two legs again, and the entry of a configured company has
\* exactly one linked income record again.
C19_NextSaveRecreates ==
    [][/\ \A t \in transfers :
            (/\ last'.op = "resave" /\ last'.id = t.id
             /\ \E r \in txs : Refs(txs, t.id) = {r} /\ ProperLeg(r, t))
            => /\ Cardinality(Refs(txs', t.id)) = 2
               /\ \A r \in Refs(txs', t.id) : ProperLeg(r, t)
       /\ \A e \in entries :
            (/\ last'.op \in GigEntryOps /\ last'.id = e.id
             /\ e.income_transaction = 0
             /\ income_subcategory(e.company) # NoSubCategory
             /\ \E x \in entries' : x = [e EXCEPT !.income_transaction = @]
                    \/ [x EXCEPT !.income_transaction = 0] = e)
            => \E x \in entries' :
                    /\ x.id = e.id
                    /\ x.income_transaction # 0
                    /\ Cardinality({r \in txs' : r.id = x.income_transaction}) = 1
                    /\ \A y \in entries' :
                            y.income_transaction = x.income_transaction => y = x
      ]_vars

----------------------------------------------------------------------------
(* The balances of the rollup, month by month *)

\* month k1 is before month k2
MonthLt(k1, k2) == k1[1] < k2[1] \/ (k1[1] = k2[1] /\ k1[2] < k2[2])

\* C20: start_balance of the earliest month of the ledger is the sum of the
\* carryover records dated on or before its first day; start_balance of every
\* later month, a later January included, is the sum of all records dated
\* before its first day; end_balance of every month is the sum of all records
\* dated on or before its last day.
C20_StartAndEndBalances ==
    last.op = "get_monthly_balances" =>
        \A k \in DOMAIN balances :
            LET rows == {r \in ledger : r.account \notin {"Visa"}}
                first == <<k[1], k[2], 1>>
                final == <<k[1], k[2], monthrange(k[1], k[2])>>
                earliest == ~ \E j \in DOMAIN balances : MonthLt(j, k)
            IN  /\ balances[k].start =
                        IF earliest
                        THEN SumAmount({r \in rows : /\ r.is_carryover
                                                     /\ ~ DateLt(first, r.date)})
                        ELSE SumAmount({r \in rows : DateLt(r.date, first)})
                /\ balances[k].end =
                        SumAmount({r \in rows : ~ DateLt(final, r.date)})

\* C21: for every month of the rollup, end_balance - start_balance is the sum
\* of the non-carryover records dated within that month, wherever the
\* carryover records are dated and whether or not earlier years have records.
C21_MonthChangeIsOrganic ==
    last.op = "get_monthly_balances" =>
        \A k \in DOMAIN balances :
            LET first == <<k[1], k[2], 1>>
                final == <<k[1], k[2], monthrange(k[1], k[2])>>
                organic == {r \in ledger : /\ r.account \notin {"Visa"}
                                           /\ ~ r.is_carryover
                                           /\ ~ DateLt(r.date, first)
                                           /\ ~ DateLt(final, r.date)}
            IN  balances[k].end - balances[k].start = SumAmount(organic)

----------------------------------------------------------------------------
(* The reconciliation report *)

\* the entry of month m in the report
EntryOf(m) ==
    report.monthly_data[CHOOSE i \in DOMAIN report.monthly_data :
                            report.monthly_data[i].month = m]

\* C22: for every Deposit account, beginning_balance of month 1 is the sum of
\* its carryover records dated January 1 of the year; beginning_balance of a
\* later month is ending_balance of the month before; and ending_balance is
\* beginning_balance plus credits minus debits of the account's non-carryover
\* records dated in the month.
C22_RunningBalanceWalk ==
    last.op = "complex_algorithm" =>
        \A a \in {"Checking", "Savings"} :
            /\ EntryOf(1).accounts[a].beginning_balance =
                    SumAmount({r \in ledger : /\ r.account = a /\ r.is_carryover
                                              /\ r.date = <<report.year, 1, 1>>})
            /\ \A m \in 2..report.current_month :
                    EntryOf(m).accounts[a].beginning_balance =
                        EntryOf(m - 1).accounts[a].ending_balance
            /\ \A m \in 1..report.current_month :
                    EntryOf(m).accounts[a].ending_balance =
                        EntryOf(m).accounts[a].beginning_balance
                        + SumCredit({r \in ledger : /\ r.account = a
                                                    /\ ~ r.is_carryover
                                                    /\ r.date[1] = report.year
                                                    /\ r.date[2] = m})
                        - SumDebit({r \in ledger : /\ r.account = a
                                                   /\ ~ r.is_carryover
                                                   /\ r.date[1] = report.year
                                                   /\ r.date[2] = m})

\* a carryover seed on January 1 and a record in February, in a report of
\* three months
C22_Witness ==
    /\ last.op = "complex_algorithm"
    /\ report.current_month = 3
    /\ EntryOf(1).accounts["Checking"].beginning_balance = 2
    /\ EntryOf(2).accounts["Checking"].ending_balance = 1
    /\ EntryOf(3).accounts["Checking"].beginning_balance = 1

\* C23: the match flag of every account row of every month of the report is
\* true, and so is the match flag of every month summary.
C23_MatchAlwaysTrue ==
    last.op = "complex_algorithm" =>
        \A i \in DOMAIN report.monthly_data :
            /\ report.monthly_data[i].summary.match
            /\ \A a \in DOMAIN report.monthly_data[i].accounts :
                    /\ report.monthly_data[i].accounts[a].match
                    /\ report.monthly_data[i].accounts[a].computed_change =
                            report.monthly_data[i].accounts[a].ending_balance
                            - report.monthly_data[i].accounts[a].beginning_balance

\* a month in which one account has both debits and credits, followed by a
\* month that begins on the non-zero balance they leave
C23_Witness ==
    /\ last.op = "complex_algorithm"
    /\ report.current_month = 3
    /\ EntryOf(2).accounts["Checking"].debit = 2
    /\ EntryOf(2).accounts["Checking"].credit = 1
    /\ EntryOf(3).accounts["Checking"].beginning_balance = 0 - 1

\* C24: the report has exactly one entry for each month from 1 to the current
\* month, ordered strictly descending by month, whichever month is selected
\* and whether or not a month has records.
C24_MonthsDescending ==
    last.op = "complex_algorithm" =>
        /\ Len(report.monthly_data) = report.current_month
        /\ \A i \in 1..Len(report.monthly_data) :
                report.monthly_data[i].month = report.current_month + 1 - i

\* a report of three months with a month other than the current one selected,
\* records in February and none in March
C24_Witness ==
    /\ last.op = "complex_algorithm"
    /\ report.current_month = 3
    /\ report.selected_month = Some(1)
    /\ Len(report.monthly_data) = 3
    /\ report.monthly_data[2].accounts["Checking"].credit = 2
    /\ report.monthly_data[1].accounts["Checking"].credit = 0
    /\ report.monthly_data[1].accounts["Checking"].debit = 0

\* the account's records dated within month m of the report's year
InMonth(a, m) ==
    {r \in ledger : /\ r.account = a
                    /\ r.date[1] = report.year
                    /\ r.date[2] = m}

\* C29 as stated: an account flagged dormant for the selected month has no
\* record with a non-zero amount dated within that month.
C29_DormantHasNoRecord ==
    (last.op = "complex_algorithm" /\ report.selected_month # None) =>
        \A a \in report.dormant :
            \A r \in InMonth(a, report.selected_month[1]) : r.amount = 0

\* C29 amended: the amounts of the records of an account flagged dormant for
\* the selected month, dated within that month, sum to zero.
C29_DormantSumsToZero ==
    (last.op = "complex_algorithm" /\ report.selected_month # None) =>
        \A a \in report.dormant :
            SumAmount(InMonth(a, report.selected_month[1])) = 0

\* an account flagged dormant for a month in which it has two records that
\* cancel
C29_Witness ==
    /\ last.op = "complex_algorithm"
    /\ report.selected_month = Some(2)
    /\ "Checking" \in report.dormant
    /\ \E r \in InMonth("Checking", 2) : r.amount = 2
    /\ \E r \in InMonth("Checking", 2) : r.amount = 0 - 2

\* C30: for every Deposit account and every month of the report,
\* ending_balance is the sum of all of the account's records, carryover
\* records of any date included, dated from January 1 of the report's year
\* through the last day of the month.
C30_EndingIsSumSinceJanuary ==
    last.op = "complex_algorithm" =>
        \A a \in {"Checking", "Savings"} :
            \A m \in 1..report.current_month :
                EntryOf(m).accounts[a].ending_balance =
                    SumAmount({r \in ledger :
                        /\ r.account = a
                        /\ DateLe(<<report.year, 1, 1>>, r.date)
                        /\ DateLe(r.date, <<report.year, m,
                                             monthrange(report.year, m)>>)})

----------------------------------------------------------------------------
(* Edits of an account of a Transfer, and of a leg *)

\* t, stored with a leg on each side, is saved again as u, which differs from
\* t in from_account or to_account alone
AccountEdited(t, u) ==
    /\ t \in transfers /\ u \in transfers'
    /\ last'.op \in SaveOps /\ last'.id = t.id
    /\ u.from_account # t.from_account \/ u.to_account # t.to_account
    /\ u = [t EXCEPT !.from_account = u.from_account,
                     !.to_account = u.to_account]
    /\ t.from_account # t.to_account /\ u.from_account # u.to_account
    /\ Mirrored(txs, t) /\ Cardinality(Refs(txs, t.id)) = 2

\* C27: after from_account or to_account of a saved Transfer is changed and
\* the Transfer is saved again, no record referencing the Transfer is left on
\* an account the Transfer no longer uses.
C27_NoLegOnFormerAccount ==
    [][\A t \in transfers, u \in transfers' :
        AccountEdited(t, u)
        => \A r \in txs' :
                r.transfer = u.id
                    => r.account \in {u.from_account, u.to_account}]_vars

\* C28: when the subcategory of one leg of a Transfer has been changed through
\* update_subcategory, the next save of the unchanged Transfer completes
\* without error and leaves exactly two legs, which mirror the Transfer.
C28_ResaveAfterLegEdit ==
    [][\A t \in transfers, r \in txs :
        (/\ last.op = "update_subcategory" /\ last.id = r.id
         /\ r.transfer = t.id
         /\ last'.op = "resave" /\ last'.id = t.id)
        => /\ last'.err = ""
           /\ Cardinality(Refs(txs', t.id)) = 2
           /\ Mirrored(txs', t)]_vars

----------------------------------------------------------------------------
(* gig_entry is all-or-nothing *)

\* C25: when a statement of gig_entry's save raises (the shift's save, an
\* entry's save, the income record's creation or update, or the note's write),
\* none of the shift, its entries and their income records is in storage:
\* storage is as it was before the request.
C25_GigEntryAllOrNothing ==
    [][(last'.op = "gig_entry_post" /\ last'.err # "")
        => /\ shifts' = shifts
           /\ entries' = entries
           /\ txs' = txs
           /\ nextEntry' = nextEntry]_vars

\* the note's write raised after the shift, its entry and the entry's income
\* record were written, and storage holds the earlier shift with its entry and
\* income record only
C25_Witness ==
    /\ last.op = "gig_entry_post"
    /\ last.err = "raised in company_mix_note"
    /\ last.n = 1
    /\ Len(shifts) = 1
    /\ Cardinality(entries) = 1
    /\ Cardinality(txs) = 1

----------------------------------------------------------------------------
(* Two callers in Transfer.save at once *)

Callers == {1, 2}

\* what a caller saves: the stored Transfer t with another description or
\* cleared flag, an edit that a save on its own mirrors into both legs
RaceEdits(t) ==
    {[t EXCEPT !.description = d, !.cleared = c] :
        d \in Descriptions, c \in BOOLEAN}

\* storage holds one Transfer with its two legs, and each caller is about to
\* save its edit of it
InitRace ==
    \E f \in TransferRows :
        LET t == [f EXCEPT !.id = 1]
        IN  /\ TransferFormClean(f)
            /\ subcats = SubCategoryNames
            /\ transfers = {t}
            /\ txs = TransferSaveLegs(SubCategoryNames, {}, 1, t).txs
            /\ nextTransfer = 2
            /\ nextTx = 3
            /\ deleting = 0
            /\ entries = {}
            /\ nextEntry = 1
            /\ shifts = <<>>
            /\ savers \in [Callers -> [self : RaceEdits(t), pc : {"row"}]]
            /\ ledger = {}
            /\ balances = <<>>
            /\ report = <<>>
            /\ last = Done("save", 1, "", 2)
            /\ ops = 0

RaceUntouched ==
    /\ UNCHANGED <<subcats, nextTransfer, deleting, ops>>
    /\ GigUnchanged /\ RollupUnchanged

\* super().save(): the caller's row replaces the stored one
transfer_save_row ==
    \E c \in Callers :
        /\ savers[c].pc = "row"
        /\ transfers' = TransferRowSave(transfers, savers[c].self)
        /\ savers' = [savers EXCEPT ![c].pc = "outgoing"]
        /\ last' = Done("row", savers[c].self.id, "", c)
        /\ UNCHANGED <<txs, nextTx>>
        /\ RaceUntouched

\* the first update_or_create, after the subcategory lookups
transfer_save_outgoing ==
    \E c \in Callers :
        LET self == savers[c].self
            res == IF ~ SubcatLookupOk(subcats, self)
                   THEN [txs |-> txs, nextTx |-> nextTx, err |-> "DoesNotExist"]
                   ELSE UpdateOrCreate(txs, nextTx, OutgoingKw(self),
                                       OutgoingDefaults(self))
        IN  /\ savers[c].pc = "outgoing"
            /\ txs' = res.txs
            /\ nextTx' = res.nextTx
            /\ savers' = [savers EXCEPT ![c].pc = IF res.err = "" THEN "incoming"
                                                  ELSE "done"]
            /\ last' = Done("outgoing", self.id, res.err, c)
            /\ UNCHANGED transfers
            /\ RaceUntouched

\* the second update_or_create
transfer_save_incoming ==
    \E c \in Callers :
        LET self == savers[c].self
            res == UpdateOrCreate(txs, nextTx, IncomingKw(self),
                                  IncomingDefaults(self))
        IN  /\ savers[c].pc = "incoming"
            /\ txs' = res.txs
            /\ nextTx' = res.nextTx
            /\ savers' = [savers EXCEPT ![c].pc = "done"]
            /\ last' = Done("incoming", self.id, res.err, c)
            /\ UNCHANGED transfers
            /\ RaceUntouched

NextRace ==
    \/ transfer_save_row
    \/ transfer_save_outgoing
    \/ transfer_save_incoming

SpecRace == InitRace /\ [][NextRace]_vars

\* C26: once both callers have finished, the Transfer row and both legs carry
\* the values of one and the same caller's write, and the Transfer has exactly
\* two legs.
C26_LastWriteWins ==
    (savers # <<>> /\ \A c \in Callers : savers[c].pc = "done") =>
        \E c \in Callers :
            /\ transfers = {savers[c].self}
            /\ Mirrored(txs, savers[c].self)
            /\ Cardinality(Refs(txs, savers[c].self.id)) = 2

====
